---- MODULE Spec2Model ----
(***************************************************************************)
(* A model of go-ripple's change impact analysis: Rippler.Changes          *)
(* (internal/rippler/rippler.go) and the helpers it calls.                 *)
(*                                                                         *)
(* Strings that the code compares or takes prefixes of (import paths,      *)
(* module paths) are sequences of byte values, so that strings.Compare and *)
(* strings.HasPrefix are computed byte by byte as Go does.  Strings that   *)
(* the code only tests for equality (versions) are TLA+ strings.           *)
(***************************************************************************)
EXTENDS Integers, Sequences, FiniteSets, TLC

VARIABLES
    world,      \* what the external commands answer: working tree, base revision, toolchain
    fs,         \* the files of os.TempDir() that Changes writes and reads
    pc,         \* position of the invocation of Changes
    report,     \* the *Report being assembled (rippler.go:93)
    changes,    \* local `changes` of Changes (rippler.go:117)
    out,        \* local `out`: the bytes of the last git show (rippler.go:336, 417, 428)
    baseMods,   \* local `baseMods` of getChangedIndirectModules (rippler.go:368)
    initialMap, \* local `initialMap` of propagateAffectedPackages (rippler.go:458)
    queue,      \* local `queue` of propagateAffectedPackages (rippler.go:471)
    ret,        \* what Changes returned: (*Report, error)
    calls,      \* the external calls made so far (subprocesses, temp-file writes), in order
    run,        \* which invocation of Changes this is (main.go:88)
    first,      \* what the previous invocations returned
    roots,      \* what explainPrinter.buildTree returned for the report
    peer        \* a second invocation of Changes on this host while it is not the one taking steps

vars == <<world, fs, pc, report, changes, out, baseMods, initialMap, queue, ret, calls, run, first, roots, peer>>

----------------------------------------------------------------------------
(* Sequences and maps *)

Range(s) == {s[i] : i \in 1..Len(s)}

\* All orders in which a Go `range` over a map with key set S may yield its keys.
RECURSIVE Orders(_)
Orders(S) == IF S = {} THEN {<<>>} ELSE UNION {{<<x>> \o q : q \in Orders(S \ {x})} : x \in S}

EmptyMap == [k \in {} |-> <<>>]

\* m[k] = v of a Go map.
Put(m, k, v) == [x \in DOMAIN m \cup {k} |-> IF x = k THEN v ELSE m[x]]

----------------------------------------------------------------------------
(* Go strings as byte sequences *)

\* strings.HasPrefix(s, prefix)
HasPrefix(s, prefix) == Len(s) >= Len(prefix) /\ SubSeq(s, 1, Len(prefix)) = prefix

\* a < b in Go's byte-wise order of strings
StrLess(a, b) ==
    \E i \in 1..(Len(a) + 1) :
        /\ i <= Len(b)
        /\ \A k \in 1..(i - 1) : a[k] = b[k]
        /\ (i = Len(a) + 1 \/ a[i] < b[i])

\* strings.Compare(a, b)
Compare(a, b) == IF a = b THEN 0 ELSE IF StrLess(a, b) THEN -1 ELSE 1

----------------------------------------------------------------------------
(* internal/rippler/printers and internal/model: data *)

\* model.AffectedPackage
AffectedPackage(importPath, indirect) == [ImportPath |-> importPath, Indirect |-> indirect]

\* rippler.Change
Change(packageName, reasons) == [PackageName |-> packageName, Reasons |-> reasons]

\* fmt.Sprintf("file %s has changed", f), "module %s has changed in go.mod",
\* "indirect module %s has changed in go.sum": the text is determined by the
\* format and its argument.
Sprintf(format, arg) == <<format, arg>>

\* filepath.Join(dir, name) for a directory and a file name without separators.
Join(dir, name) == Append(dir, name)

\* The directory the process runs in; filepath.Abs resolves against it.
Cwd == <<"repo">>

\* filepath.Abs(line) for a relative path.
Abs(line) == Cwd \o line.path

----------------------------------------------------------------------------
(* rippler.go:159-184  getChangedGoFiles, after git diff answered `lines` *)

RECURSIVE goFilesLoop(_, _)
goFilesLoop(outLines, goFiles) ==
    IF outLines = <<>> THEN goFiles
    ELSE IF ~Head(outLines).goSuffix
         THEN goFilesLoop(Tail(outLines), goFiles)
         ELSE goFilesLoop(Tail(outLines), Append(goFiles, Abs(Head(outLines))))

getChangedGoFiles(outLines) == goFilesLoop(outLines, <<>>)

----------------------------------------------------------------------------
(* rippler.go:243-254  mapPackagesByFile *)

RECURSIVE mapFilesLoop(_, _, _)
mapFilesLoop(pkg, goFiles, result) ==
    IF goFiles = <<>> THEN result
    ELSE mapFilesLoop(pkg, Tail(goFiles), Put(result, Join(pkg.Dir, Head(goFiles)), pkg.ImportPath))

RECURSIVE mapPackagesLoop(_, _)
mapPackagesLoop(pkgs, result) ==
    IF pkgs = <<>> THEN result
    ELSE mapPackagesLoop(Tail(pkgs), mapFilesLoop(Head(pkgs), Head(pkgs).GoFiles, result))

mapPackagesByFile(pkgs) == mapPackagesLoop(pkgs, EmptyMap)

----------------------------------------------------------------------------
(* rippler.go:213-240  affectedPackagesByFileChanges *)

RECURSIVE fileChangesLoop(_, _, _)
fileChangesLoop(dirtyFiles, pkgMap, affected) ==
    IF dirtyFiles = <<>> THEN affected
    ELSE LET f == Head(dirtyFiles) IN
         IF f \notin DOMAIN pkgMap
         THEN fileChangesLoop(Tail(dirtyFiles), pkgMap, affected)
         ELSE LET pkg == pkgMap[f]
                  reason == Sprintf("file %s has changed", f)
              IN IF pkg \notin DOMAIN affected
                 THEN fileChangesLoop(Tail(dirtyFiles), pkgMap,
                                      Put(affected, pkg, Change(pkg, <<reason>>)))
                 ELSE fileChangesLoop(Tail(dirtyFiles), pkgMap,
                                      Put(affected, pkg,
                                          Change(pkg, Append(affected[pkg].Reasons, reason))))

\* fileChangesLoop with line 228 assigning instead of appending: the last reason replaces the others.
RECURSIVE fileChangesLoopReplacing(_, _, _)
fileChangesLoopReplacing(dirtyFiles, pkgMap, affected) ==
    IF dirtyFiles = <<>> THEN affected
    ELSE LET f == Head(dirtyFiles) IN
         IF f \notin DOMAIN pkgMap
         THEN fileChangesLoopReplacing(Tail(dirtyFiles), pkgMap, affected)
         ELSE fileChangesLoopReplacing(Tail(dirtyFiles), pkgMap,
                                       Put(affected, pkgMap[f],
                                           Change(pkgMap[f], <<Sprintf("file %s has changed", f)>>)))

fileChangesMapReplacing(allPackages, dirtyFiles) ==
    fileChangesLoopReplacing(dirtyFiles, mapPackagesByFile(allPackages), EmptyMap)

\* The map `affected` at line 234, before it is ranged over.
fileChangesMap(allPackages, dirtyFiles) ==
    fileChangesLoop(dirtyFiles, mapPackagesByFile(allPackages), EmptyMap)

\* The values of map m in the order `order` of its keys: `for i := range m { out = append(out, m[i]) }`.
ValuesInOrder(m, order) == [i \in 1..Len(order) |-> m[order[i]]]

\* Every slice affectedPackagesByFileChanges may return: one per iteration order of the map.
affectedPackagesByFileChanges(allPackages, dirtyFiles) ==
    LET affected == fileChangesMap(allPackages, dirtyFiles)
    IN {ValuesInOrder(affected, order) : order \in Orders(DOMAIN affected)}

----------------------------------------------------------------------------
(* rippler.go:350-364  getChangedModules, after the baseline go.mod was parsed *)

RECURSIVE oldSetLoop(_, _)
oldSetLoop(require, oldSet) ==
    IF require = <<>> THEN oldSet
    ELSE oldSetLoop(Tail(require), Put(oldSet, Head(require).Path, Head(require).Version))

RECURSIVE changedModulesLoop(_, _, _)
changedModulesLoop(require, oldSet, changed) ==
    IF require = <<>> THEN changed
    ELSE LET r == Head(require) IN
         IF r.Path \notin DOMAIN oldSet \/ oldSet[r.Path] # r.Version
         THEN changedModulesLoop(Tail(require), oldSet, Append(changed, r.Path))
         ELSE changedModulesLoop(Tail(require), oldSet, changed)

\* getChangedModules that also walks the baseline: removed requirements are reported too.
getChangedModulesBothWays(oldMod, currentGoMod) ==
    changedModulesLoop(currentGoMod.Require, oldSetLoop(oldMod.Require, EmptyMap), <<>>)
        \o changedModulesLoop(oldMod.Require, oldSetLoop(currentGoMod.Require, EmptyMap), <<>>)

getChangedModules(oldMod, currentGoMod) ==
    changedModulesLoop(currentGoMod.Require, oldSetLoop(oldMod.Require, EmptyMap), <<>>)

\* rippler.go:280-287: one Change per changed module.
goModChanges(changedMods) ==
    [i \in 1..Len(changedMods) |->
        Change(changedMods[i], <<Sprintf("module %s has changed in go.mod", changedMods[i])>>)]

----------------------------------------------------------------------------
(* rippler.go:398-408, 442-452  the output of `go list -m all` as a map *)

RECURSIVE modulesLoop(_, _)
modulesLoop(lines, modules) ==
    IF lines = <<>> THEN modules
    ELSE LET fields == Head(lines) IN
         IF Len(fields) >= 2
         THEN modulesLoop(Tail(lines), Put(modules, fields[1], fields[2]))
         ELSE modulesLoop(Tail(lines), modules)

parseModules(lines) == modulesLoop(lines, EmptyMap)

(* rippler.go:378-387  getChangedIndirectModules *)

\* The loop at line 380 when the map currentMods is ranged over in `order`.
RECURSIVE changedIndirectLoop(_, _, _, _)
changedIndirectLoop(order, base, currentMods, changed) ==
    IF order = <<>> THEN changed
    ELSE LET path == Head(order) IN
         IF path \notin DOMAIN base \/ base[path] # currentMods[path]
         THEN changedIndirectLoop(Tail(order), base, currentMods, Append(changed, path))
         ELSE changedIndirectLoop(Tail(order), base, currentMods, changed)

\* getChangedIndirectModules with the two maps swapped at line 380.
getChangedIndirectModulesSwapped(base, currentMods) ==
    {changedIndirectLoop(order, currentMods, base, <<>>) : order \in Orders(DOMAIN base)}

\* Every slice getChangedIndirectModules may return: the map is ranged over in any order.
getChangedIndirectModules(base, currentMods) ==
    {changedIndirectLoop(order, base, currentMods, <<>>) : order \in Orders(DOMAIN currentMods)}

\* rippler.go:309-316: one Change per changed indirect module.
externalModuleChanges(indirectMods) ==
    [i \in 1..Len(indirectMods) |->
        Change(indirectMods[i],
               <<Sprintf("indirect module %s has changed in go.sum", indirectMods[i])>>)]

----------------------------------------------------------------------------
(* rippler.go:503-521  unifyChanges *)

RECURSIVE unifyLoop(_, _)
unifyLoop(ch, unified) ==
    IF ch = <<>> THEN unified
    ELSE LET c == Head(ch) IN
         IF c.PackageName \in DOMAIN unified
         THEN unifyLoop(Tail(ch),
                        Put(unified, c.PackageName,
                            Change(c.PackageName, unified[c.PackageName].Reasons \o c.Reasons)))
         ELSE unifyLoop(Tail(ch), Put(unified, c.PackageName, c))

\* unifyLoop without line 508: a later record replaces the earlier one.
RECURSIVE unifyLoopReplacing(_, _)
unifyLoopReplacing(ch, unified) ==
    IF ch = <<>> THEN unified
    ELSE unifyLoopReplacing(Tail(ch), Put(unified, Head(ch).PackageName, Head(ch)))

unifyMapReplacing(ch) == unifyLoopReplacing(ch, EmptyMap)

\* unifyLoop that looks only at the record inserted last instead of looking
\* the name up: records of one name are merged only when they are adjacent.
RECURSIVE unifyLoopAdjacent(_, _, _)
unifyLoopAdjacent(ch, unified, last) ==
    IF ch = <<>> THEN unified
    ELSE LET c == Head(ch) IN
         IF c.PackageName \in DOMAIN unified /\ last = c.PackageName
         THEN unifyLoopAdjacent(Tail(ch),
                                Put(unified, c.PackageName,
                                    Change(c.PackageName, unified[c.PackageName].Reasons \o c.Reasons)),
                                c.PackageName)
         ELSE unifyLoopAdjacent(Tail(ch), Put(unified, c.PackageName, c), c.PackageName)

unifyMapAdjacent(ch) == unifyLoopAdjacent(ch, EmptyMap, <<>>)

\* The map `unified` at line 515.
unifyMap(ch) == unifyLoop(ch, EmptyMap)

\* Every slice unifyChanges may return: one per iteration order of the map.
unifyChanges(ch) ==
    LET unified == unifyMap(ch)
    IN {ValuesInOrder(unified, order) : order \in Orders(DOMAIN unified)}

----------------------------------------------------------------------------
(* rippler.go:455-501  propagateAffectedPackages *)

\* Line 465: Imports, TestImports and XTestImports appended.
fullPackageImports(pkg) == pkg.Imports \o pkg.TestImports \o pkg.XTestImports

\* dependentsOf with the test of line 467 inverted: the importers of anything but id.
RECURSIVE dependentsOfOthers(_, _)
dependentsOfOthers(id, allPackages) ==
    IF allPackages = <<>> THEN <<>>
    ELSE LET pkg == Head(allPackages)
             hits == SelectSeq(fullPackageImports(pkg), LAMBDA imp : imp # id)
         IN [i \in 1..Len(hits) |-> pkg.ImportPath] \o dependentsOfOthers(id, Tail(allPackages))

\* Lines 464-469: dependents[id], the importers of id in inventory order, one
\* entry per occurrence of id in the importer's combined import list.
RECURSIVE dependentsOf(_, _)
dependentsOf(id, allPackages) ==
    IF allPackages = <<>> THEN <<>>
    ELSE LET pkg == Head(allPackages)
             hits == SelectSeq(fullPackageImports(pkg), LAMBDA imp : imp = id)
         IN [i \in 1..Len(hits) |-> pkg.ImportPath] \o dependentsOf(id, Tail(allPackages))

\* markLoop with line 483 left out: a dependent is marked but never enqueued.
RECURSIVE markLoopNoEnqueue(_, _, _)
markLoopNoEnqueue(deps, marked, q) ==
    IF deps = <<>> THEN [initialMap |-> marked, queue |-> q]
    ELSE markLoopNoEnqueue(Tail(deps), marked \cup {Head(deps)}, q)

\* markLoop with a `break` after line 483: only the first new dependent is marked.
RECURSIVE markLoopFirstOnly(_, _, _)
markLoopFirstOnly(deps, marked, q) ==
    IF deps = <<>> THEN [initialMap |-> marked, queue |-> q]
    ELSE IF Head(deps) \notin marked
         THEN [initialMap |-> marked \cup {Head(deps)}, queue |-> Append(q, Head(deps))]
         ELSE markLoopFirstOnly(Tail(deps), marked, q)

\* markLoop without the test of line 481: every dependent is enqueued, marked or not.
RECURSIVE markLoopUnguarded(_, _, _)
markLoopUnguarded(deps, marked, q) ==
    IF deps = <<>> THEN [initialMap |-> marked, queue |-> q]
    ELSE markLoopUnguarded(Tail(deps), marked \cup {Head(deps)}, Append(q, Head(deps)))

\* Lines 480-485: the inner loop over dependents[current].
RECURSIVE markLoop(_, _, _)
markLoop(deps, marked, q) ==
    IF deps = <<>> THEN [initialMap |-> marked, queue |-> q]
    ELSE IF Head(deps) \notin marked
         THEN markLoop(Tail(deps), marked \cup {Head(deps)}, Append(q, Head(deps)))
         ELSE markLoop(Tail(deps), marked, q)

\* Lines 477-485: one iteration of the loop `for len(queue) > 0`.
propagateStep(allPackages, marked, q) ==
    markLoop(dependentsOf(Head(q), allPackages), marked, Tail(q))

\* Line 492.
isIndirect(pkg, modulePath) == ~HasPrefix(pkg, modulePath)

\* Lines 496-498: slices.SortFunc with strings.Compare on ImportPath.
RECURSIVE insertSorted(_, _)
insertSorted(x, sorted) ==
    IF sorted = <<>> THEN <<x>>
    ELSE IF Compare(x.ImportPath, Head(sorted).ImportPath) < 0
         THEN <<x>> \o sorted
         ELSE <<Head(sorted)>> \o insertSorted(x, Tail(sorted))

RECURSIVE sortLoop(_, _)
sortLoop(s, sorted) ==
    IF s = <<>> THEN sorted ELSE sortLoop(Tail(s), insertSorted(Head(s), sorted))

\* SortFunc left out: the slice stays in map order.
SortFuncSkipped(s) == s

SortFunc(s) == sortLoop(s, <<>>)

\* Lines 488-500: the slice built from initialMap ranged over in `order`, then sorted.
affectedOut(order, modulePath) ==
    SortFunc([i \in 1..Len(order) |-> AffectedPackage(order[i], isIndirect(order[i], modulePath))])

----------------------------------------------------------------------------
(* unnamed/part_002:162-204  explainPrinter.buildTree *)

\* Line 166.
allImports(pkg) == pkg.Imports \o pkg.TestImports \o pkg.XTestImports

\* Lines 165-171: dependencyMap[imported], the importers in inventory order.
RECURSIVE dependencyMap(_, _)
dependencyMap(imported, allPackages) ==
    IF allPackages = <<>> THEN <<>>
    ELSE LET pkg == Head(allPackages)
             hits == SelectSeq(allImports(pkg), LAMBDA imp : imp = imported)
         IN [i \in 1..Len(hits) |-> pkg.ImportPath] \o dependencyMap(imported, Tail(allPackages))

treeNode(pkg, children) == [PackageName |-> pkg, Children |-> children]

\* Lines 178-193: the closure buildTreeNode with the map `visited` it
\* captures passed in and out; `node` is empty for a nil result.
\* childrenLoop is the loop of lines 186-190.
RECURSIVE buildTreeNode(_, _, _)
RECURSIVE childrenLoop(_, _, _, _)
buildTreeNode(pkg, visited, allPackages) ==
    IF pkg \in visited THEN [node |-> <<>>, visited |-> visited]
    ELSE LET done == childrenLoop(dependencyMap(pkg, allPackages), visited \cup {pkg}, <<>>, allPackages)
         IN [node |-> <<treeNode(pkg, done.children)>>, visited |-> done.visited]

childrenLoop(deps, visited, children, allPackages) ==
    IF deps = <<>> THEN [children |-> children, visited |-> visited]
    ELSE LET child == buildTreeNode(Head(deps), visited, allPackages)
         IN childrenLoop(Tail(deps), child.visited, children \o child.node, allPackages)

\* rootsLoop with `visited` made anew for every root.
RECURSIVE rootsLoopForgetting(_, _, _, _)
rootsLoopForgetting(ch, visited, treeRoots, allPackages) ==
    IF ch = <<>> THEN treeRoots
    ELSE rootsLoopForgetting(Tail(ch), {},
                             treeRoots \o buildTreeNode(Head(ch).PackageName, {}, allPackages).node,
                             allPackages)

\* Lines 197-201.
RECURSIVE rootsLoop(_, _, _, _)
rootsLoop(ch, visited, treeRoots, allPackages) ==
    IF ch = <<>> THEN treeRoots
    ELSE LET root == buildTreeNode(Head(ch).PackageName, visited, allPackages)
         IN rootsLoop(Tail(ch), root.visited, treeRoots \o root.node, allPackages)

buildTree(rep) == rootsLoop(rep.Changes, {}, <<>>, rep.AllPackages)

----------------------------------------------------------------------------
(* The files and commands Changes talks to *)

\* A file's bytes: go.mod bytes decode to a model.GoMod, go.sum bytes do not.
GoModFile(goMod) == [kind |-> "go.mod", json |-> goMod]
GoSumFile(rev) == [kind |-> "go.sum", rev |-> rev]

\* rippler.go:143-157  parseGoMod: `go mod edit -json` on the bytes, then json.Unmarshal.
parseGoMod(file) == file.json

\* `git diff --name-only <base> -- go.mod` is non-empty iff the two go.mod differ (rippler.go:321-330).
goModHasChanged(w) == w.baseGoMod # w.goMod

\* `go list -m -modfile=<tmpMod> all`: the resolution of the go.mod bytes found in the file.
listModulesOf(w, modFile) == IF modFile = w.baseGoMod THEN w.baseModLines ELSE w.modLines

NoFile == <<>>
\* The zero value of model.GoMod and the Report of line 93.
ZeroGoMod == [Module |-> [Path |-> <<>>], Go |-> "", Require |-> <<>>]
NoReport == [GoMod |-> ZeroGoMod,
             DirtyFiles |-> <<>>, AllPackages |-> <<>>, AffectedPackages |-> <<>>, Changes |-> <<>>]
Running == [state |-> "running", report |-> <<>>, err |-> "nil"]

\* exec.Cmd.Output / os.WriteFile was called and answered ok or not.
Called(call, ok) == calls' = Append(calls, [call |-> call, ok |-> ok])

\* ReturnError that hands back the report assembled so far: `return report, err`.
ReturnErrorWithReport(err) ==
    /\ pc' = "returned"
    /\ ret' = [state |-> "error", report |-> <<report>>, err |-> err]

\* `return nil, fmt.Errorf(...)` all the way out of Changes.
ReturnError(err) ==
    /\ pc' = "returned"
    /\ ret' = [state |-> "error", report |-> <<>>, err |-> err]

----------------------------------------------------------------------------
(* rippler.go:92-141  Changes, one action per external call or pure step *)

\* Lines 95-100.
ParseGoMod ==
    /\ pc = "parseGoMod"
    /\ \E ok \in BOOLEAN :
        /\ Called("go mod edit -json go.mod", ok)
        /\ IF ok
           THEN /\ report' = [report EXCEPT !.GoMod = parseGoMod(world.goMod)]
                /\ pc' = "listAllPackages"
                /\ ret' = ret
           ELSE /\ ReturnError("failed to parse go.mod")
                /\ report' = report
    /\ UNCHANGED <<world, fs, changes, out, baseMods, initialMap, queue, run, first, roots, peer>>

\* Lines 102-107, 186-210.
ListAllPackages ==
    /\ pc = "listAllPackages"
    /\ \E ok \in BOOLEAN :
        /\ Called("go list -json ./...", ok)
        /\ IF ok
           THEN /\ report' = [report EXCEPT !.AllPackages = world.packages]
                /\ pc' = "getChangedGoFiles"
                /\ ret' = ret
           ELSE /\ ReturnError("failed to list all packages")
                /\ report' = report
    /\ UNCHANGED <<world, fs, changes, out, baseMods, initialMap, queue, run, first, roots, peer>>

\* Lines 109-114, 159-184.
GetChangedGoFiles ==
    /\ pc = "getChangedGoFiles"
    /\ \E ok \in BOOLEAN :
        /\ Called("git diff --name-only", ok)
        /\ IF ok
           THEN /\ report' = [report EXCEPT !.DirtyFiles = getChangedGoFiles(world.diffLines)]
                /\ pc' = "affectedPackagesByFileChanges"
                /\ ret' = ret
           ELSE /\ ReturnError("failed to get changed Go files")
                /\ report' = report
    /\ UNCHANGED <<world, fs, changes, out, baseMods, initialMap, queue, run, first, roots, peer>>

\* Line 117.
AffectedPackagesByFileChanges ==
    /\ pc = "affectedPackagesByFileChanges"
    /\ changes' \in affectedPackagesByFileChanges(report.AllPackages, report.DirtyFiles)
    /\ pc' = "goModHasChanged"
    /\ UNCHANGED <<world, fs, report, out, baseMods, initialMap, queue, ret, calls, run, first, roots, peer>>

\* Lines 266-273 (and 125 when go.mod has not changed: nothing is appended).
GoModHasChanged ==
    /\ pc = "goModHasChanged"
    /\ \E ok \in BOOLEAN :
        /\ Called("git diff --name-only -- go.mod", ok)
        /\ IF ok
           THEN /\ pc' = IF goModHasChanged(world) THEN "getChangedModules" ELSE "getBaseModules"
                /\ ret' = ret
           ELSE ReturnError("failed to check if go.mod has changed")
    /\ UNCHANGED <<world, fs, report, changes, out, baseMods, initialMap, queue, run, first, roots, peer>>

\* Lines 333-339.
ShowBaseGoMod ==
    /\ pc = "getChangedModules"
    /\ \E ok \in BOOLEAN :
        /\ Called("git show base:go.mod", ok)
        /\ IF ok
           THEN /\ out' = <<world.baseGoMod>>
                /\ pc' = "writeTmpGoMod"
                /\ ret' = ret
           ELSE /\ ReturnError("failed to get base go.mod")
                /\ out' = out
    /\ UNCHANGED <<world, fs, report, changes, baseMods, initialMap, queue, run, first, roots, peer>>

\* Lines 341-343.
WriteTmpGoMod ==
    /\ pc = "writeTmpGoMod"
    /\ \E ok \in BOOLEAN :
        /\ Called("write go.mod.base", ok)
        /\ IF ok
           THEN /\ fs' = [fs EXCEPT !.goModBase = out]
                /\ pc' = "parseTmpGoMod"
                /\ ret' = ret
           ELSE /\ ReturnError("failed to write temp go.mod")
                /\ fs' = fs
    /\ out' = <<>>
    /\ UNCHANGED <<world, report, changes, baseMods, initialMap, queue, run, first, roots, peer>>

\* Lines 345-364, 280-289 and 125.
ParseTmpGoMod ==
    /\ pc = "parseTmpGoMod"
    /\ \E ok \in BOOLEAN :
        /\ Called("go mod edit -json go.mod.base", ok)
        /\ IF ok
           THEN /\ changes' = changes \o goModChanges(getChangedModules(parseGoMod(fs.goModBase[1]),
                                                                       report.GoMod))
                /\ pc' = "getBaseModules"
                /\ ret' = ret
           ELSE /\ ReturnError("failed to parse go.mod")
                /\ changes' = changes
    /\ UNCHANGED <<world, fs, report, out, baseMods, initialMap, queue, run, first, roots, peer>>

\* Lines 412-420.
ShowBaseMod ==
    /\ pc = "getBaseModules"
    /\ \E ok \in BOOLEAN :
        /\ Called("git show base:go.mod", ok)
        /\ IF ok
           THEN /\ out' = <<world.baseGoMod>>
                /\ pc' = "writeBaseMod"
                /\ ret' = ret
           ELSE /\ ReturnError("failed to get base go.mod")
                /\ out' = out
    /\ UNCHANGED <<world, fs, report, changes, baseMods, initialMap, queue, run, first, roots, peer>>

\* Lines 422-424.
WriteBaseMod ==
    /\ pc = "writeBaseMod"
    /\ \E ok \in BOOLEAN :
        /\ Called("write go.base.mod", ok)
        /\ IF ok
           THEN /\ fs' = [fs EXCEPT !.goBaseMod = out]
                /\ pc' = "showBaseSum"
                /\ ret' = ret
           ELSE /\ ReturnError("failed to write base go.mod")
                /\ fs' = fs
    /\ out' = <<>>
    /\ UNCHANGED <<world, report, changes, baseMods, initialMap, queue, run, first, roots, peer>>

\* Lines 426-429: when git show fails, the write at 430 is skipped and the
\* function goes on to line 435.
ShowBaseSum ==
    /\ pc = "showBaseSum"
    /\ \E ok \in BOOLEAN :
        /\ Called("git show base:go.sum", ok)
        /\ IF ok
           THEN /\ out' = <<world.baseGoSum>>
                /\ pc' = "writeBaseSum"
           ELSE /\ out' = <<>>
                /\ pc' = "listBaseModules"
    /\ UNCHANGED <<world, fs, report, changes, baseMods, initialMap, queue, ret, run, first, roots, peer>>

\* Lines 430-432.
WriteBaseSum ==
    /\ pc = "writeBaseSum"
    /\ \E ok \in BOOLEAN :
        /\ Called("write go.base.sum", ok)
        /\ IF ok
           THEN /\ fs' = [fs EXCEPT !.goBaseSum = out]
                /\ pc' = "listBaseModules"
                /\ ret' = ret
           ELSE /\ ReturnError("failed to write base go.sum")
                /\ fs' = fs
    /\ out' = <<>>
    /\ UNCHANGED <<world, report, changes, baseMods, initialMap, queue, run, first, roots, peer>>

\* Lines 435-452 and 368-371.
ListBaseModules ==
    /\ pc = "listBaseModules"
    /\ \E ok \in BOOLEAN :
        /\ Called("go list -m -modfile=go.base.mod all", ok)
        /\ IF ok
           THEN /\ baseMods' = parseModules(listModulesOf(world, fs.goBaseMod[1]))
                /\ pc' = "getAllModules"
                /\ ret' = ret
           ELSE /\ ReturnError("failed to list base modules")
                /\ baseMods' = baseMods
    /\ UNCHANGED <<world, fs, report, changes, out, initialMap, queue, run, first, roots, peer>>

\* Lines 373-387 (getAllModules: 390-409), 309-318 and 134.
GetAllModules ==
    /\ pc = "getAllModules"
    /\ \E ok \in BOOLEAN :
        /\ Called("go list -m all", ok)
        /\ IF ok
           THEN /\ \E indirectMods \in getChangedIndirectModules(baseMods, parseModules(world.modLines)) :
                     changes' = changes \o externalModuleChanges(indirectMods)
                /\ pc' = "unifyChanges"
                /\ ret' = ret
           ELSE /\ ReturnError("failed to list current modules")
                /\ changes' = changes
    /\ baseMods' = EmptyMap
    /\ UNCHANGED <<world, fs, report, out, initialMap, queue, run, first, roots, peer>>

\* Line 137.
UnifyChanges ==
    /\ pc = "unifyChanges"
    /\ \E unified \in unifyChanges(changes) :
         report' = [report EXCEPT !.Changes = unified]
    /\ changes' = <<>>
    /\ pc' = "propagateAffectedPackages"
    /\ UNCHANGED <<world, fs, out, baseMods, initialMap, queue, ret, calls, run, first, roots, peer>>

\* Lines 456-474: initialMap from the changes, queue from initialMap in map order.
PropagateInit ==
    /\ pc = "propagateAffectedPackages"
    /\ initialMap' = {report.Changes[i].PackageName : i \in 1..Len(report.Changes)}
    /\ queue' \in Orders(initialMap')
    /\ pc' = "propagateLoop"
    /\ UNCHANGED <<world, fs, report, changes, out, baseMods, ret, calls, run, first, roots, peer>>

\* Lines 476-486: one iteration of the outer loop.
PropagateLoop ==
    /\ pc = "propagateLoop"
    /\ queue # <<>>
    /\ LET next == propagateStep(report.AllPackages, initialMap, queue)
       IN /\ initialMap' = next.initialMap
          /\ queue' = next.queue
    /\ UNCHANGED <<world, fs, pc, report, changes, out, baseMods, ret, calls, run, first, roots, peer>>

\* Lines 488-500, then 138-140: Changes returns the report.
PropagateReturn ==
    /\ pc = "propagateLoop"
    /\ queue = <<>>
    /\ \E order \in Orders(initialMap) :
         /\ report' = [report EXCEPT !.AffectedPackages = affectedOut(order, report.GoMod.Module.Path)]
         /\ ret' = [state |-> "ok", report |-> <<report'>>, err |-> "nil"]
    /\ initialMap' = {}
    /\ pc' = "returned"
    /\ UNCHANGED <<world, fs, changes, out, baseMods, queue, calls, run, first, roots, peer>>

\* main.go:88: the tool is run again on the same working tree and base.
MaxRuns == 2

Rerun ==
    /\ pc = "returned"
    /\ ret.state = "ok"
    /\ run < MaxRuns
    /\ run' = run + 1
    /\ first' = ret.report[1].AffectedPackages
    /\ pc' = "parseGoMod"
    /\ report' = NoReport
    /\ ret' = Running
    /\ calls' = <<>>
    /\ UNCHANGED <<world, fs, changes, out, baseMods, initialMap, queue, roots, peer>>

Next ==
    \/ ParseGoMod
    \/ ListAllPackages
    \/ GetChangedGoFiles
    \/ AffectedPackagesByFileChanges
    \/ GoModHasChanged
    \/ ShowBaseGoMod
    \/ WriteTmpGoMod
    \/ ParseTmpGoMod
    \/ ShowBaseMod
    \/ WriteBaseMod
    \/ ShowBaseSum
    \/ WriteBaseSum
    \/ ListBaseModules
    \/ GetAllModules
    \/ UnifyChanges
    \/ PropagateInit
    \/ PropagateLoop
    \/ PropagateReturn
    \/ Rerun

----------------------------------------------------------------------------
(* The inputs the model is checked on *)

\* Import paths and module paths, as bytes.
IdE  == <<101>>             \* "e": a third-party module and its root package
IdM  == <<109>>             \* "m": the project's module and its root package
IdMA == <<109, 47, 97>>     \* "m/a"
IdMB == <<109, 47, 98>>     \* "m/b"
IdM2 == <<109, 50>>         \* "m2": a third-party module whose path starts with "m"
IdT  == <<116>>             \* "t": a module that is only a transitive dependency

ModulePath == IdM
ProjectPkgs == <<IdM, IdMA, IdMB>>
Ids == {IdE, IdM, IdMA, IdMB, IdM2}
ImportClasses == {"Imports", "TestImports", "XTestImports"}
Versions == {"v1", "v2"}

\* Bounds of the inputs.
MaxImports == 2     \* import entries in an inventory
MaxChanged == 2     \* identifiers in a reconciled change set
MaxDiff == 2        \* lines of a git diff that name files
MaxDirty == 3       \* files of a changed-file list
MaxInput == 3       \* Change records handed to unifyChanges

\* The subsets of S with at most k elements.
RECURSIVE UpTo(_, _)
UpTo(S, k) == IF k = 0 THEN {{}} ELSE UpTo(S, k - 1) \cup {A \cup {x} : A \in UpTo(S, k - 1), x \in S}

\* The sequences over S of length at most k.
RECURSIVE SeqsUpTo(_, _)
SeqsUpTo(S, k) ==
    IF k = 0 THEN {<<>>} ELSE SeqsUpTo(S, k - 1) \cup {Append(q, x) : q \in SeqsUpTo(S, k - 1), x \in S}

\* The subsequences of s with at most k elements, order kept.
SubSeqsUpTo(s, k) ==
    {SelectSeq([i \in 1..Len(s) |-> [i |-> i, v |-> s[i]]], LAMBDA e : e.i \in I) : I \in UpTo(1..Len(s), k)}

Values(s) == [i \in 1..Len(s) |-> s[i].v]

\* The identifiers of S in ascending byte order, as `go list` prints import lists.
Ascending(S) == CHOOSE q \in Orders(S) : \A i \in 1..(Cardinality(S) - 1) : StrLess(q[i], q[i + 1])

PkgDir(id) == IF id = IdM THEN Cwd ELSE IF id = IdMA THEN Append(Cwd, "a") ELSE Append(Cwd, "b")
PkgGoFiles(id) == IF id = IdM THEN <<"main.go">> ELSE IF id = IdMA THEN <<"a.go", "a2.go">> ELSE <<"b.go">>

\* An inventory is given by its import entries <<importer, imported, class>>;
\* the root package is the command and is imported by nothing.
ImportSlots == Range(ProjectPkgs) \X {IdMA, IdMB, IdE} \X ImportClasses

Package(id, entries) ==
    [Dir |-> PkgDir(id), GoFiles |-> PkgGoFiles(id), ImportPath |-> id,
     Imports |-> Ascending({e[2] : e \in {x \in entries : x[1] = id /\ x[3] = "Imports"}}),
     TestImports |-> Ascending({e[2] : e \in {x \in entries : x[1] = id /\ x[3] = "TestImports"}}),
     XTestImports |-> Ascending({e[2] : e \in {x \in entries : x[1] = id /\ x[3] = "XTestImports"}})]

Inventory(entries) == [i \in 1..Len(ProjectPkgs) |-> Package(ProjectPkgs[i], entries)]

Inventories == {Inventory(entries) : entries \in UpTo(ImportSlots, MaxImports)}

\* go.mod files: the module, and for each third-party module either no
\* requirement or one with a version and an indirect mark.
Requirement(path, version, indirect) == [Path |-> path, Version |-> version, Indirect |-> indirect]

RequireLists ==
    {re \o r2 \o rt : re \in {<<>>} \cup {<<Requirement(IdE, v, i)>> : v \in Versions, i \in BOOLEAN},
                      r2 \in {<<>>} \cup {<<Requirement(IdM2, v, i)>> : v \in Versions, i \in BOOLEAN},
                      rt \in {<<>>} \cup {<<Requirement(IdT, v, TRUE)>> : v \in Versions}}

GoMod(require) == [Module |-> [Path |-> ModulePath], Go |-> "1.22", Require |-> require]

\* `go list -m all`: the main module alone on its line, then one line
\* "path version" per selected module.
ModuleLines(selected) ==
    <<<<ModulePath>>>> \o [i \in 1..Len(Ascending(DOMAIN selected)) |->
                              <<Ascending(DOMAIN selected)[i], selected[Ascending(DOMAIN selected)[i]]>>]

Selections(paths) == UNION {[P -> Versions] : P \in SUBSET paths}

NoWorld == [goMod |-> GoModFile(ZeroGoMod), baseGoMod |-> GoModFile(ZeroGoMod), baseGoSum |-> GoSumFile("base"),
            packages |-> <<>>, diffLines |-> <<>>, baseModLines |-> <<>>, modLines |-> <<>>]

NoFiles == [goModBase |-> NoFile, goBaseMod |-> NoFile, goBaseSum |-> NoFile]

\* No second invocation runs on the host.
NoPeer == <<>>

\* Everything but the inputs, at the start of Changes.
Start(at) ==
    /\ pc = at
    /\ fs = NoFiles
    /\ out = <<>>
    /\ baseMods = EmptyMap
    /\ initialMap = {}
    /\ queue = <<>>
    /\ ret = Running
    /\ calls = <<>>
    /\ run = 1
    /\ first = <<>>
    /\ roots = <<>>
    /\ peer = NoPeer

\* The go.mod that selects `selected`: "e" and "m2" are required directly, "t" is not.
RequireOf(selected) ==
    LET direct == Ascending(DOMAIN selected \cap {IdE, IdM2})
    IN [i \in 1..Len(direct) |-> Requirement(direct[i], selected[direct[i]], direct[i] = IdM2)]

\* Lines of `git diff --name-only`: go.mod is listed when it differs, and the
\* output ends with a newline, so that strings.Split yields a last empty line.
DiffLine(path, goSuffix) == [path |-> path, goSuffix |-> goSuffix]
DiffCandidates == <<DiffLine(<<"a", "a.go">>, TRUE), DiffLine(<<"a", "a_test.go">>, TRUE),
                    DiffLine(<<"b", "b.go">>, TRUE), DiffLine(<<"docs", "x.md">>, FALSE)>>

\* The working tree and base revision in which the base resolves to `base`,
\* the working tree to `cur`, and git diff lists `diff`.
WorldOf(base, cur, packages, diff) ==
    [goMod |-> GoModFile(GoMod(RequireOf(cur))),
     baseGoMod |-> GoModFile(GoMod(RequireOf(base))),
     baseGoSum |-> GoSumFile("base"),
     packages |-> packages,
     diffLines |-> diff \o (IF RequireOf(base) # RequireOf(cur) THEN <<DiffLine(<<"go.mod">>, FALSE)>> ELSE <<>>)
                        \o <<DiffLine(<<>>, FALSE)>>,
     baseModLines |-> ModuleLines(base),
     modLines |-> ModuleLines(cur)]

\* Equal go.mod files resolve to equal module lists.
Resolvable(base, cur) == RequireOf(base) = RequireOf(cur) => base = cur

(* The whole of Changes, on the scenarios of the design: a chain of imports,
   a third-party import reached through test imports, and an import cycle. *)
ScenarioInventories ==
    {Inventory({<<IdMA, IdMB, "Imports">>, <<IdM, IdMA, "Imports">>}),
     Inventory({<<IdMA, IdE, "Imports">>, <<IdMB, IdMA, "TestImports">>, <<IdM, IdE, "XTestImports">>}),
     Inventory({<<IdMA, IdMB, "Imports">>, <<IdMA, IdMB, "TestImports">>, <<IdMB, IdMA, "XTestImports">>})}

ScenarioSelections ==
    {EmptyMap,
     (IdE :> "v1"),
     (IdE :> "v1") @@ (IdT :> "v1"),
     (IdE :> "v2") @@ (IdM2 :> "v1")}

Init ==
    /\ \E base \in ScenarioSelections, cur \in ScenarioSelections,
          packages \in ScenarioInventories, diff \in SubSeqsUpTo(DiffCandidates, MaxDiff) :
            /\ Resolvable(base, cur)
            /\ world = WorldOf(base, cur, packages, Values(diff))
    /\ report = NoReport
    /\ changes = <<>>
    /\ Start("parseGoMod")

Spec == Init /\ [][Next]_vars

(* affectedPackagesByFileChanges on every changed-file list over the files
   of the packages and one file no package owns. *)
PkgFilePaths(id) == {Join(PkgDir(id), PkgGoFiles(id)[j]) : j \in 1..Len(PkgGoFiles(id))}

FilePaths == UNION {PkgFilePaths(id) : id \in Range(ProjectPkgs)} \cup {Abs(DiffCandidates[2])}

InitFiles ==
    /\ world = NoWorld
    /\ \E dirtyFiles \in SeqsUpTo(FilePaths, MaxDirty) :
         report = [NoReport EXCEPT !.GoMod = GoMod(<<>>), !.AllPackages = Inventory({}),
                                   !.DirtyFiles = dirtyFiles]
    /\ changes = <<>>
    /\ Start("affectedPackagesByFileChanges")

SpecFiles == InitFiles /\ [][AffectedPackagesByFileChanges]_vars

(* getChangedModules on every pair of differing go.mod files. *)
InitGoMod ==
    /\ \E base \in RequireLists, cur \in RequireLists :
         /\ base # cur
         /\ world = [NoWorld EXCEPT !.goMod = GoModFile(GoMod(cur)), !.baseGoMod = GoModFile(GoMod(base))]
         /\ report = [NoReport EXCEPT !.GoMod = GoMod(cur)]
    /\ changes = <<>>
    /\ Start("getChangedModules")

NextGoMod == ShowBaseGoMod \/ WriteTmpGoMod \/ ParseTmpGoMod

SpecGoMod == InitGoMod /\ [][NextGoMod]_vars

(* getChangedIndirectModules on every pair of resolutions of three modules. *)
InitModules ==
    /\ \E base \in Selections({IdE, IdM2, IdT}), cur \in Selections({IdE, IdM2, IdT}) :
         /\ Resolvable(base, cur)
         /\ world = WorldOf(base, cur, Inventory({}), <<>>)
         /\ report = [NoReport EXCEPT !.GoMod = GoMod(RequireOf(cur)), !.AllPackages = Inventory({})]
    /\ changes = <<>>
    /\ Start("getBaseModules")

NextModules == ShowBaseMod \/ WriteBaseMod \/ ShowBaseSum \/ WriteBaseSum \/ ListBaseModules \/ GetAllModules

SpecModules == InitModules /\ [][NextModules]_vars

(* unifyChanges on every list of Change records the three detectors can
   produce: names repeat, reasons are never empty. *)
InputReasons(id) ==
    IF id = IdMA
    THEN {Sprintf("file %s has changed", Join(PkgDir(IdMA), PkgGoFiles(IdMA)[j])) : j \in 1..2}
    ELSE {Sprintf("module %s has changed in go.mod", id),
          Sprintf("indirect module %s has changed in go.sum", id)}

InputChanges ==
    {Change(id, reasons) : id \in {IdE}, reasons \in SeqsUpTo(InputReasons(IdE), 2) \ {<<>>}}
    \cup {Change(id, reasons) : id \in {IdMA}, reasons \in SeqsUpTo(InputReasons(IdMA), 2) \ {<<>>}}
    \cup {Change(IdM2, <<Sprintf("module %s has changed in go.mod", IdM2)>>)}

InitUnify ==
    /\ world = NoWorld
    /\ report = [NoReport EXCEPT !.GoMod = GoMod(<<>>), !.AllPackages = Inventory({})]
    /\ changes \in SeqsUpTo(InputChanges, MaxInput)
    /\ Start("unifyChanges")

SpecUnify == InitUnify /\ [][UnifyChanges]_vars

(* propagateAffectedPackages on every inventory and reconciled change set. *)
ReconciledChanges(S) ==
    [i \in 1..Cardinality(S) |->
        Change(Ascending(S)[i], <<Sprintf("module %s has changed in go.mod", Ascending(S)[i])>>)]

InitPropagate ==
    /\ world = NoWorld
    /\ \E packages \in Inventories, S \in UpTo(Ids, MaxChanged) :
         report = [NoReport EXCEPT !.GoMod = GoMod(<<>>), !.AllPackages = packages,
                                   !.Changes = ReconciledChanges(S)]
    /\ changes = <<>>
    /\ Start("propagateAffectedPackages")

NextPropagate == PropagateInit \/ PropagateLoop \/ PropagateReturn

SpecPropagate == InitPropagate /\ [][NextPropagate]_vars

(* propagateAffectedPackages called three times on one inventory: on a
   change set, on a second change set, and on the union of the two. *)
UnionInventories ==
    ScenarioInventories
    \cup {Inventory({<<IdMA, IdE, "Imports">>, <<IdMB, IdE, "TestImports">>}),
          Inventory({<<IdMA, IdE, "Imports">>, <<IdMB, IdM2, "Imports">>}),
          Inventory({<<IdMA, IdMA, "XTestImports">>, <<IdM, IdMA, "Imports">>})}

ChangeNames(ch) == {ch[i].PackageName : i \in 1..Len(ch)}

InitUnion ==
    /\ world = NoWorld
    /\ \E packages \in UnionInventories, S1 \in UpTo(Ids, MaxChanged) :
         report = [NoReport EXCEPT !.GoMod = GoMod(<<>>), !.AllPackages = packages,
                                   !.Changes = ReconciledChanges(S1)]
    /\ changes = <<>>
    /\ Start("propagateAffectedPackages")

\* Lines 137-138 again: the report gets another reconciled change set (any
\* second one, then the union of the first two) and is propagated anew.
PropagateNext ==
    /\ pc = "returned"
    /\ Len(first) < 2
    /\ first' = Append(first, ret.report[1])
    /\ \E S \in (IF first = <<>> THEN UpTo(Ids, MaxChanged)
                 ELSE {ChangeNames(first[1].Changes) \cup ChangeNames(report.Changes)}) :
         report' = [report EXCEPT !.Changes = ReconciledChanges(S), !.AffectedPackages = <<>>]
    /\ run' = run + 1
    /\ pc' = "propagateAffectedPackages"
    /\ ret' = Running
    /\ UNCHANGED <<world, fs, changes, out, baseMods, initialMap, queue, calls, roots, peer>>

NextUnion == PropagateInit \/ PropagateLoop \/ PropagateReturn \/ PropagateNext

SpecUnion == InitUnion /\ [][NextUnion]_vars

----------------------------------------------------------------------------
(* unifyChanges called again on what the three detectors hand it for the
   same working tree and base, and then on its own result. *)
ReconcileSelections == Selections({IdE, IdT})

\* Lines 117-135 when no external call fails: the file changes, then the
\* go.mod changes, then the external module changes, each map in any order.
DetectedChanges(w, allPackages) ==
    LET byFile == affectedPackagesByFileChanges(allPackages, getChangedGoFiles(w.diffLines))
        byGoMod == IF goModHasChanged(w)
                   THEN goModChanges(getChangedModules(parseGoMod(w.baseGoMod), parseGoMod(w.goMod)))
                   ELSE <<>>
        byExternal == {externalModuleChanges(indirectMods) :
                          indirectMods \in getChangedIndirectModules(parseModules(w.baseModLines),
                                                                      parseModules(w.modLines))}
    IN {f \o byGoMod \o x : f \in byFile, x \in byExternal}

InitReconcile ==
    /\ \E base \in ReconcileSelections, cur \in ReconcileSelections,
          diff \in SubSeqsUpTo(DiffCandidates, MaxDiff) :
            /\ Resolvable(base, cur)
            /\ world = WorldOf(base, cur, Inventory({}), Values(diff))
    /\ report = [NoReport EXCEPT !.GoMod = parseGoMod(world.goMod), !.AllPackages = world.packages,
                                 !.DirtyFiles = getChangedGoFiles(world.diffLines)]
    /\ changes \in DetectedChanges(world, world.packages)
    /\ Start("unifyChanges")

\* Line 137 again: first on the detectors' records in another of their
\* orders, then on the slice unifyChanges itself returned.
ReconcileAgain ==
    /\ pc = "propagateAffectedPackages"
    /\ Len(first) < 2
    /\ first' = Append(first, report.Changes)
    /\ changes' \in (IF first = <<>> THEN DetectedChanges(world, report.AllPackages) ELSE {report.Changes})
    /\ run' = run + 1
    /\ pc' = "unifyChanges"
    /\ UNCHANGED <<world, fs, report, out, baseMods, initialMap, queue, ret, calls, roots, peer>>

NextReconcile == UnifyChanges \/ ReconcileAgain

SpecReconcile == InitReconcile /\ [][NextReconcile]_vars

----------------------------------------------------------------------------
(* Two invocations of Changes on one host, each in its own project with a
   changed go.mod, from getChangedModules to getBaseModules. os.TempDir() is
   the same directory for both; everything else is the invocation's own. *)
ConcurrentSelections == {EmptyMap, (IdE :> "v1"), (IdE :> "v2") @@ (IdM2 :> "v1")}

\* What belongs to one invocation: its project and the locals of Changes.
Suspended(w, at, rep, ch, o, mods, r, log) ==
    [world |-> w, pc |-> at, report |-> rep, changes |-> ch, out |-> o, baseMods |-> mods,
     ret |-> r, calls |-> log]

InitConcurrent ==
    /\ \E base \in ConcurrentSelections, cur \in ConcurrentSelections,
          peerBase \in ConcurrentSelections, peerCur \in ConcurrentSelections :
            /\ RequireOf(base) # RequireOf(cur)
            /\ RequireOf(peerBase) # RequireOf(peerCur)
            /\ world = WorldOf(base, cur, Inventory({}), <<>>)
            /\ report = [NoReport EXCEPT !.GoMod = GoMod(RequireOf(cur)), !.AllPackages = Inventory({})]
            /\ peer = Suspended([WorldOf(peerBase, peerCur, Inventory({}), <<>>)
                                    EXCEPT !.baseGoSum = GoSumFile("base of the other project")],
                                "getChangedModules",
                                [NoReport EXCEPT !.GoMod = GoMod(RequireOf(peerCur)),
                                                 !.AllPackages = Inventory({})],
                                <<>>, <<>>, EmptyMap, Running, <<>>)
    /\ pc = "getChangedModules"
    /\ changes = <<>>
    /\ fs = NoFiles
    /\ out = <<>>
    /\ baseMods = EmptyMap
    /\ initialMap = {}
    /\ queue = <<>>
    /\ ret = Running
    /\ calls = <<>>
    /\ run = 1
    /\ first = <<>>
    /\ roots = <<>>

\* The host's scheduler: the invocation that was taking steps is suspended
\* between two of its calls and the other one goes on. Only os.TempDir() is shared.
Yield ==
    /\ peer # NoPeer
    /\ peer' = Suspended(world, pc, report, changes, out, baseMods, ret, calls)
    /\ world' = peer.world
    /\ pc' = peer.pc
    /\ report' = peer.report
    /\ changes' = peer.changes
    /\ out' = peer.out
    /\ baseMods' = peer.baseMods
    /\ ret' = peer.ret
    /\ calls' = peer.calls
    /\ run' = IF run = 1 THEN 2 ELSE 1
    /\ UNCHANGED <<fs, initialMap, queue, first, roots>>

NextConcurrent ==
    \/ ShowBaseGoMod
    \/ WriteTmpGoMod
    \/ ParseTmpGoMod
    \/ ShowBaseMod
    \/ WriteBaseMod
    \/ ShowBaseSum
    \/ WriteBaseSum
    \/ ListBaseModules
    \/ Yield

SpecConcurrent == InitConcurrent /\ [][NextConcurrent]_vars

----------------------------------------------------------------------------
(* propagateAffectedPackages as a process that keeps running, on inventories
   whose import graph has cycles and self-imports. *)
CyclicInventories ==
    {Inventory({<<IdMA, IdMB, "Imports">>, <<IdMB, IdMA, "Imports">>, <<IdMA, IdMA, "TestImports">>}),
     Inventory({<<IdM, IdMA, "Imports">>, <<IdMA, IdMB, "TestImports">>, <<IdMB, IdM, "XTestImports">>}),
     Inventory({<<IdMB, IdMB, "Imports">>, <<IdMB, IdE, "Imports">>, <<IdMA, IdMB, "Imports">>}),
     Inventory({<<IdMA, IdE, "Imports">>, <<IdMA, IdE, "TestImports">>, <<IdMB, IdMA, "Imports">>,
                <<IdMA, IdMB, "XTestImports">>, <<IdM, IdM, "Imports">>})}

InitTerminate ==
    /\ world = NoWorld
    /\ \E packages \in CyclicInventories \cup UnionInventories, S \in UpTo(Ids, MaxChanged) :
         report = [NoReport EXCEPT !.GoMod = GoMod(<<>>), !.AllPackages = packages,
                                   !.Changes = ReconciledChanges(S)]
    /\ changes = <<>>
    /\ Start("propagateAffectedPackages")

\* The function is straight-line sequential code: whatever step is next is taken.
SpecTerminate == InitTerminate /\ [][NextPropagate]_vars /\ WF_vars(NextPropagate)

----------------------------------------------------------------------------
(* propagateAffectedPackages and then explainPrinter.buildTree on the report,
   the Changes in any order unifyChanges may leave them in. *)
ChangesInOrder(order) ==
    [i \in 1..Len(order) |-> Change(order[i], <<Sprintf("module %s has changed in go.mod", order[i])>>)]

InitExplain ==
    /\ world = NoWorld
    /\ \E packages \in CyclicInventories \cup UnionInventories, S \in UpTo(Ids, MaxChanged) :
         \E order \in Orders(S) :
            report = [NoReport EXCEPT !.GoMod = GoMod(<<>>), !.AllPackages = packages,
                                      !.Changes = ChangesInOrder(order)]
    /\ changes = <<>>
    /\ Start("propagateAffectedPackages")

\* unnamed/part_002:119: the explain printer builds the tree of the returned report.
BuildTree ==
    /\ pc = "returned"
    /\ ret.state = "ok"
    /\ roots' = buildTree(ret.report[1])
    /\ pc' = "explained"
    /\ UNCHANGED <<world, fs, report, changes, out, baseMods, initialMap, queue, ret, calls, run, first, peer>>

NextExplain == PropagateInit \/ PropagateLoop \/ PropagateReturn \/ BuildTree

SpecExplain == InitExplain /\ [][NextExplain]_vars

----------------------------------------------------------------------------
----------------------------------------------------------------------------
(* Properties *)

\* Changes has returned a report.
ReturnedOk == pc = "returned" /\ ret.state = "ok"

\* The import paths of the returned AffectedPackages, in order and as a set.
AffectedPaths == [i \in 1..Len(ret.report[1].AffectedPackages) |-> ret.report[1].AffectedPackages[i].ImportPath]
AffectedSet == Range(AffectedPaths)

\* The identifiers of the reconciled change set and the returned inventory.
ChangedSet == {ret.report[1].Changes[i].PackageName : i \in 1..Len(ret.report[1].Changes)}
ReturnedPackages == Range(ret.report[1].AllPackages)

\* What a package lists in Imports, TestImports or XTestImports.
ImportsOf(pkg) == Range(pkg.Imports) \cup Range(pkg.TestImports) \cup Range(pkg.XTestImports)

\* A is closed under "X in A and Y imports X => Y in A".
ClosedUnderImportedBy(A) == \A pkg \in ReturnedPackages : ImportsOf(pkg) \cap A # {} => pkg.ImportPath \in A

\* C1: the import paths of the returned AffectedPackages are the least set
\* that contains every identifier of the reconciled change set and is closed
\* under "X is in the set and package Y imports X (in any of the three import
\* classes) => Y is in the set".
C1_Closure ==
    ReturnedOk =>
        /\ ChangedSet \subseteq AffectedSet
        /\ ClosedUnderImportedBy(AffectedSet)
        /\ \A B \in SUBSET (ChangedSet \cup {pkg.ImportPath : pkg \in ReturnedPackages}) :
              (ChangedSet \subseteq B /\ ClosedUnderImportedBy(B)) => AffectedSet \subseteq B

\* A report whose affected set holds a changed identifier that is no package
\* of the inventory and a package that is more than one import away from
\* every changed identifier.
C1_Witness ==
    /\ ReturnedOk
    /\ \E s \in ChangedSet : s \notin {pkg.ImportPath : pkg \in ReturnedPackages}
    /\ \E pkg \in ReturnedPackages :
          /\ pkg.ImportPath \in AffectedSet \ ChangedSet
          /\ ImportsOf(pkg) \cap ChangedSet = {}

\* C2 as claimed: an affected identifier is Indirect iff it neither equals
\* the module path nor starts with the module path followed by "/".
C2_IndirectIffOutsideModule ==
    ReturnedOk =>
        \A i \in 1..Len(ret.report[1].AffectedPackages) :
            LET a == ret.report[1].AffectedPackages[i]
                M == ret.report[1].GoMod.Module.Path
            IN a.Indirect <=> ~(a.ImportPath = M \/ HasPrefix(a.ImportPath, M \o <<47>>))

\* C9 as claimed: a package that no package of the inventory imports and that
\* is not in the reconciled change set is never affected.
C9_NoDependentsNeverAffected ==
    ReturnedOk =>
        \A pkg \in ReturnedPackages :
            ((\A other \in ReturnedPackages : pkg.ImportPath \notin ImportsOf(other))
                /\ pkg.ImportPath \notin ChangedSet)
            => pkg.ImportPath \notin AffectedSet

\* C9 as amended: a package that imports no affected identifier (in
\* particular one that imports nothing) and that is not in the reconciled
\* change set is never affected.
C9_NoAffectedImportNeverAffected ==
    ReturnedOk =>
        \A pkg \in ReturnedPackages :
            (ImportsOf(pkg) \cap AffectedSet = {} /\ pkg.ImportPath \notin ChangedSet)
            => pkg.ImportPath \notin AffectedSet

\* A report with an affected dependent beside a package that imports
\* something, none of it affected, and that is left out.
C9_Witness ==
    /\ ReturnedOk
    /\ AffectedSet # ChangedSet
    /\ \E pkg \in ReturnedPackages :
          /\ ImportsOf(pkg) # {}
          /\ ImportsOf(pkg) \cap AffectedSet = {}
          /\ pkg.ImportPath \notin AffectedSet

\* C3: the import paths of the returned AffectedPackages are strictly
\* ascending in byte order, so none occurs twice.
C3_StrictlyAscending ==
    ReturnedOk => \A i \in 1..(Len(AffectedPaths) - 1) : StrLess(AffectedPaths[i], AffectedPaths[i + 1])

\* A report of three or more affected packages, one of them changed itself
\* and also an importer of another changed identifier, one of them imported
\* by two affected packages.
C3_Witness ==
    /\ ReturnedOk
    /\ Len(AffectedPaths) >= 3
    /\ \E pkg \in ReturnedPackages : pkg.ImportPath \in ChangedSet /\ ImportsOf(pkg) \cap ChangedSet # {}
    /\ \E p \in ReturnedPackages, q \in ReturnedPackages :
          p # q /\ ImportsOf(p) \cap ImportsOf(q) \cap AffectedSet # {}

\* The PackageNames of a list of Change records.
Names(ch) == [i \in 1..Len(ch) |-> ch[i].PackageName]

SelectedBy(lines) ==
    [path \in {l[1] : l \in {x \in Range(lines) : Len(x) >= 2}} |->
        (CHOOSE l \in Range(lines) : Len(l) >= 2 /\ l[1] = path)[2]]

\* C5: getChangedIndirectModules returns exactly the identifiers of the
\* current resolution whose version differs from the baseline's or that the
\* baseline lacks, each once.
C5_ChangedIndirectModules ==
    pc = "unifyChanges" =>
        LET base == SelectedBy(world.baseModLines)
            cur == SelectedBy(world.modLines)
            expected == {path \in DOMAIN cur : path \notin DOMAIN base \/ base[path] # cur[path]}
        IN /\ Range(Names(changes)) = expected
           /\ Len(changes) = Cardinality(expected)

\* getChangedIndirectModules has returned an identifier while the baseline
\* holds one the current resolution lacks and one with an equal version.
C5_Witness ==
    /\ pc = "unifyChanges"
    /\ changes # <<>>
    /\ \E path \in DOMAIN SelectedBy(world.baseModLines) : path \notin DOMAIN SelectedBy(world.modLines)
    /\ \E path \in DOMAIN SelectedBy(world.baseModLines) \cap DOMAIN SelectedBy(world.modLines) :
          SelectedBy(world.baseModLines)[path] = SelectedBy(world.modLines)[path]

\* The package owns the file: it is one of its GoFiles in its Dir.
Owns(pkg, file) == \E j \in 1..Len(pkg.GoFiles) : Join(pkg.Dir, pkg.GoFiles[j]) = file

\* C6: affectedPackagesByFileChanges returns one Change per package that
\* owns a file of the changed-file list and none for any other name; the
\* Change carries one reason per occurrence of an owned file, in list order.
C6_FileChanges ==
    pc = "goModHasChanged" =>
        /\ \A pkg \in Range(report.AllPackages) :
              LET owned == SelectSeq(report.DirtyFiles, LAMBDA f : Owns(pkg, f))
                  mine == SelectSeq(changes, LAMBDA c : c.PackageName = pkg.ImportPath)
              IN IF owned = <<>> THEN mine = <<>>
                 ELSE /\ Len(mine) = 1
                      /\ mine[1].Reasons = [i \in 1..Len(owned) |-> Sprintf("file %s has changed", owned[i])]
        /\ \A c \in Range(changes) : \E pkg \in Range(report.AllPackages) : pkg.ImportPath = c.PackageName

\* A changed-file list with a file no package owns and a package whose
\* Change carries two reasons.
C6_Witness ==
    /\ pc = "goModHasChanged"
    /\ \E f \in Range(report.DirtyFiles) : \A pkg \in Range(report.AllPackages) : ~Owns(pkg, f)
    /\ \E c \in Range(changes) : Len(c.Reasons) >= 2

\* The reasons of the records named `name`, appended in the order of the list.
RECURSIVE ReasonsOf(_, _)
ReasonsOf(ch, name) ==
    IF ch = <<>> THEN <<>>
    ELSE (IF Head(ch).PackageName = name THEN Head(ch).Reasons ELSE <<>>) \o ReasonsOf(Tail(ch), name)

\* C7: unifyChanges returns one Change per PackageName of its input and no
\* other, each with the reasons of all input records of that name appended in
\* input order; no Change of Report.Changes has an empty reason list.
C7_Unify ==
    [][pc = "unifyChanges" =>
        /\ Range(Names(report'.Changes)) = Range(Names(changes))
        /\ Len(report'.Changes) = Cardinality(Range(Names(changes)))
        /\ \A c \in Range(report'.Changes) :
              c.Reasons = ReasonsOf(changes, c.PackageName) /\ c.Reasons # <<>>]_vars

\* unifyChanges has returned two Changes, one with the reasons of three records.
C7_Witness ==
    /\ pc = "propagateAffectedPackages"
    /\ Len(report.Changes) = 2
    /\ \E c \in Range(report.Changes) : Len(c.Reasons) >= 3

\* The call whose failure Changes does not return.
ShowGoSum == "git show base:go.sum"

\* C8 as claimed: a failed external call is the last call made, Changes has
\* returned an error and no report.
C8_EveryFailureTerminal ==
    \A i \in 1..Len(calls) :
        ~calls[i].ok => (i = Len(calls) /\ pc = "returned" /\ ret.state = "error" /\ ret.report = <<>>)

\* C8 as amended: a failed external call other than the git show of the
\* baseline go.sum is the last call made, Changes has returned an error and no
\* report; after a failed git show of the baseline go.sum Changes goes on,
\* without writing the go.sum file, to list the baseline modules.
C8_FailureTerminalButGoSum ==
    \A i \in 1..Len(calls) :
        ~calls[i].ok =>
            IF calls[i].call # ShowGoSum
            THEN i = Len(calls) /\ pc = "returned" /\ ret.state = "error" /\ ret.report = <<>>
            ELSE IF i = Len(calls)
                 THEN pc = "listBaseModules" /\ ret.state = "running"
                 ELSE calls[i + 1].call = "go list -m -modfile=go.base.mod all"

\* Changes has returned an error for a failed listing of the baseline
\* modules, after it went on past a failed git show of the baseline go.sum.
C8_Witness ==
    /\ pc = "returned" /\ ret.state = "error" /\ ret.report = <<>>
    /\ Len(calls) >= 2
    /\ ~calls[Len(calls)].ok
    /\ calls[Len(calls) - 1] = [call |-> ShowGoSum, ok |-> FALSE]

\* C10: a second run of Changes on the same inputs returns the
\* AffectedPackages of the first, whatever the orders of the map iterations
\* and of the frontier were in either run.
C10_SameOutputTwice ==
    (ReturnedOk /\ run >= 2) => ret.report[1].AffectedPackages = first

\* A second run has returned three or more affected packages.
C10_Witness ==
    /\ ReturnedOk
    /\ run = 2
    /\ Len(first) >= 3
    /\ \E a \in Range(first) : a.Indirect

\* The import paths of a list of AffectedPackages.
PathsOf(affected) == {affected[i].ImportPath : i \in 1..Len(affected)}

\* The affected set of the union of two change sets is the union of their affected sets.
C11_UnionOfAffected ==
    (ReturnedOk /\ Len(first) = 2) =>
        AffectedSet = PathsOf(first[1].AffectedPackages) \cup PathsOf(first[2].AffectedPackages)

\* No step of propagateAffectedPackages touches Report.Changes.
PropagationKeepsChanges ==
    (pc = "propagateAffectedPackages" \/ pc = "propagateLoop") => report'.Changes = report.Changes

C11_ChangesKept == [][PropagationKeepsChanges]_vars

\* C11: for every inventory and any two change sets S1 and S2, the affected
\* set computed from S1 union S2 is the union of the affected sets computed
\* from S1 and from S2, and propagation leaves Report.Changes as reconciliation
\* left it: no reason is changed, no Change is added for a propagated package.
C11_Additive == [](C11_UnionOfAffected) /\ C11_ChangesKept

\* Two disjoint non-empty change sets, each reaching a package the other does
\* not, were propagated, and then their union.
C11_Witness ==
    /\ ReturnedOk
    /\ Len(first) = 2
    /\ ChangeNames(first[1].Changes) # {}
    /\ ChangeNames(first[2].Changes) # {}
    /\ ChangeNames(first[1].Changes) \cap ChangeNames(first[2].Changes) = {}
    /\ PathsOf(first[1].AffectedPackages) \ PathsOf(first[2].AffectedPackages) # ChangeNames(first[1].Changes)
    /\ PathsOf(first[2].AffectedPackages) \ PathsOf(first[1].AffectedPackages) # ChangeNames(first[2].Changes)
    /\ AffectedSet # ChangedSet
    /\ ret.report[1].Changes = ReconciledChanges(ChangedSet)


\* Two slices of Changes are the same mapping: one Change per name, the same
\* names, and under each name the same reason list.
SameMapping(a, b) ==
    /\ Len(a) = Cardinality(ChangeNames(a))
    /\ Len(b) = Cardinality(ChangeNames(b))
    /\ ChangeNames(a) = ChangeNames(b)
    /\ \A i \in 1..Len(a), j \in 1..Len(b) : a[i].PackageName = b[j].PackageName => a[i].Reasons = b[j].Reasons

\* C12: unifyChanges is idempotent: reconciling the same multiset of input
\* Change records again, and reconciling its own result, yields the same
\* mapping as before: the same set of PackageNames, each with the same reason list.
C12_Idempotent ==
    (pc = "propagateAffectedPackages" /\ first # <<>>) => SameMapping(first[Len(first)], report.Changes)

\* unifyChanges ran twice on the detectors' records and returned the same
\* mapping as two different slices, one Change carrying two reasons.
C12_Witness ==
    /\ pc = "propagateAffectedPackages"
    /\ Len(first) = 1
    /\ first[1] # report.Changes
    /\ Len(report.Changes) >= 3
    /\ \E c \in Range(report.Changes) : Len(c.Reasons) >= 2


\* The paths a go.mod requires, and the version it requires a path at.
RequiredPaths(goMod) == {goMod.Require[i].Path : i \in 1..Len(goMod.Require)}
RequiredAt(goMod, path) == {goMod.Require[i].Version : i \in {k \in 1..Len(goMod.Require) : goMod.Require[k].Path = path}}

\* C13: when go.mod has changed against the base, every module that was
\* added, removed, or had its version changed between the baseline and the
\* current go.mod yields a Change with a "has changed in go.mod" reason.
C13_AddedRemovedChanged ==
    (pc = "getBaseModules" /\ calls # <<>> /\ calls[Len(calls)].call = "go mod edit -json go.mod.base") =>
        LET cur == world.goMod.json
            old == world.baseGoMod.json
        IN \A path \in RequiredPaths(old) \cup RequiredPaths(cur) :
              RequiredAt(old, path) # RequiredAt(cur, path) =>
                  \E c \in Range(changes) :
                      /\ c.PackageName = path
                      /\ Sprintf("module %s has changed in go.mod", path) \in Range(c.Reasons)


\* C14: of two invocations of Changes that run concurrently on one host,
\* each parses its baseline manifest and lists its baseline modules from the
\* go.mod (and go.sum) content that it wrote itself, never from content the
\* other invocation wrote, under every interleaving of their steps.
C14_ReadsWhatItWrote ==
    /\ pc = "parseTmpGoMod" => fs.goModBase = <<world.baseGoMod>>
    /\ pc = "listBaseModules" =>
          /\ fs.goBaseMod = <<world.baseGoMod>>
          /\ fs.goBaseSum \in {NoFile, <<world.baseGoSum>>}


\* The frontier holds marked identifiers, each once.
FrontierMarkedOnce ==
    pc = "propagateLoop" =>
        /\ Range(queue) \subseteq initialMap
        /\ \A i \in 1..Len(queue), j \in 1..Len(queue) : queue[i] = queue[j] => i = j

\* One iteration of the loop dequeues the head, keeps every mark, and
\* enqueues exactly the identifiers it marks for the first time, each once.
DequeueStep ==
    (pc = "propagateLoop" /\ queue # <<>>) =>
        /\ initialMap \subseteq initialMap'
        /\ Len(queue') >= Len(queue) - 1
        /\ SubSeq(queue', 1, Len(queue) - 1) = Tail(queue)
        /\ {queue'[i] : i \in Len(queue)..Len(queue')} = initialMap' \ initialMap
        /\ Len(queue') - (Len(queue) - 1) = Cardinality(initialMap' \ initialMap)

\* C15: the breadth-first loop of propagateAffectedPackages terminates with
\* an empty frontier for every inventory and change set, cycles and
\* self-imports included: marks are never removed and an identifier is
\* enqueued only when it is first marked, so it is dequeued at most once.
C15_Terminates ==
    /\ <>(pc = "returned" /\ queue = <<>>)
    /\ [](FrontierMarkedOnce)
    /\ [][DequeueStep]_vars

\* The loop has ended on an inventory in which two affected packages import
\* each other and one of them imports itself.
C15_Witness ==
    /\ pc = "returned"
    /\ queue = <<>>
    /\ \E p \in ReturnedPackages, q \in ReturnedPackages :
          /\ p # q
          /\ p.ImportPath \in ImportsOf(q) /\ q.ImportPath \in ImportsOf(p)
          /\ p.ImportPath \in ImportsOf(p)
          /\ {p.ImportPath, q.ImportPath} \subseteq AffectedSet
          /\ ~({p.ImportPath, q.ImportPath} \subseteq ChangedSet)


\* The names of all nodes of a forest, parents before children.
RECURSIVE NodeNames(_)
NodeNames(forest) ==
    IF forest = <<>> THEN <<>>
    ELSE <<Head(forest).PackageName>> \o NodeNames(Head(forest).Children) \o NodeNames(Tail(forest))

\* Each name in one node only, and the names are the affected import paths.
TreeOfAffected ==
    pc = "explained" =>
        LET names == NodeNames(roots)
        IN /\ \A i \in 1..Len(names), j \in 1..Len(names) : names[i] = names[j] => i = j
           /\ Range(names) = AffectedSet

\* C16: for every Report, inventories with import cycles included,
\* explainPrinter.buildTree terminates (it has a result for every returned
\* report) and returns a forest in which each
\* package name occurs in exactly one node and whose node names are the import
\* paths of the AffectedPackages that propagateAffectedPackages computed from
\* the same Changes and inventory.
C16_TreeOfAffected == (ReturnedOk => ENABLED BuildTree) /\ TreeOfAffected

\* buildTree returned one tree for two changed identifiers: the second is
\* reached from the first, and two of its packages import each other.
C16_Witness ==
    /\ pc = "explained"
    /\ Len(roots) = 1
    /\ Cardinality(ChangedSet) = 2
    /\ Len(NodeNames(roots)) >= 3
    /\ \E p \in ReturnedPackages, q \in ReturnedPackages :
          /\ p # q
          /\ p.ImportPath \in ImportsOf(q) /\ q.ImportPath \in ImportsOf(p)
          /\ {p.ImportPath, q.ImportPath} \subseteq Range(NodeNames(roots))


====
